---- MODULE Spec2Model ----
(***************************************************************************)
(* State-machine model of the CDC ingestion consumer                       *)
(* (consumer/kafka_to_minio.py): the poll loop, the row extraction, the    *)
(* per-topic buffers, write_to_minio and the shutdown drain.               *)
(***************************************************************************)
EXTENDS Integers, Sequences, FiniteSets, TLC

(* ----------------------------- bounds ---------------------------------- *)
\* flush threshold used by the model (the program's batch_size, scaled down)
batch_size == 2
\* total number of events ever written to the topics
MaxEvents == 3
\* largest number of records one poll returns
MaxPoll == 2
\* number of process runs (1 = no restart)
MaxRuns == 2
\* number of envelopes of an unusual shape ever written to the topics
MaxMalformed == 1
\* days the clock runs through, and distinct clock readings within one day
MaxDay == 2
TicksPerDay == 2
\* number of bucket names the store may hold, and of runs of the bucket-ensure
\* step
MaxBuckets == 3
MaxEnsure == 2

(* ------------------------ Python values -------------------------------- *)
PyNone == [kind |-> "None"]
PyStr(s) == [kind |-> "str", s |-> s]
PyInt(n) == [kind |-> "int", n |-> n]
\* a dict is a set of <<key, value>> pairs with distinct keys
PyDict(items) == [kind |-> "dict", items |-> items]

\* Python truthiness, as used by `if record:` and `if records:`
Truthy(v) ==
  CASE v.kind = "None" -> FALSE
    [] v.kind = "dict" -> v.items # {}
    [] v.kind = "str" -> v.s # ""
    [] v.kind = "int" -> v.n # 0

\* d.get(k, dflt) for a dict d
DictGet(d, k, dflt) ==
  IF \E p \in d.items : p[1] = k
  THEN (CHOOSE p \in d.items : p[1] = k)[2]
  ELSE dflt

\* x.get(...) raises AttributeError unless x is a dict
HasGet(x) == x.kind = "dict"

(* --------------------------- topics ------------------------------------ *)
\* a topic name, split at the dots
TopicOrder ==
  << <<"banking_server", "public", "customers">>,
     <<"banking_server", "public", "accounts">>,
     <<"banking_server", "public", "transactions">> >>
Topics == {TopicOrder[i] : i \in 1..Len(TopicOrder)}

\* topic.split('.')[-1]
TableOf(topic) == topic[Len(topic)]
Tables == {TableOf(t) : t \in Topics}

(* ---------------------- CDC envelopes on the topics -------------------- *)
RowImage == PyDict({<<"id", PyInt(1)>>})
Envelope(payload) == PyDict({<<"payload", payload>>})
EvCreate == Envelope(PyDict({<<"op", PyStr("c")>>, <<"after", RowImage>>}))
EvDelete == Envelope(PyDict({<<"op", PyStr("d")>>, <<"after", PyNone>>}))
EvDeleteWithAfter == Envelope(PyDict({<<"op", PyStr("d")>>, <<"after", RowImage>>}))
EvEmptyAfter == Envelope(PyDict({<<"op", PyStr("c")>>, <<"after", PyDict({})>>}))
EvNullPayload == Envelope(PyNone)
EvNoPayload == PyDict({})
\* the envelopes the connector emits for inserts and deletes
WellFormedShapes == {EvCreate, EvDelete}
EventShapes ==
  {EvCreate, EvDelete, EvDeleteWithAfter, EvEmptyAfter, EvNullPayload, EvNoPayload}

(* ----------------------------- state ----------------------------------- *)
VARIABLES
  pc,         \* position of the process in the script
  run,        \* number of the current process run
  cause,      \* which except clause ran: "none", "KeyboardInterrupt", "Exception"
  log,        \* topic -> sequence of envelopes written to the topic
  position,   \* topic -> consumer fetch position (records returned so far)
  committed,  \* topic -> offset committed for the consumer group
  closed,     \* consumer.close() has been executed in this run
  msg_batch,  \* records of the current poll result not yet iterated
  buffer,     \* topic -> list of rows
  fl,         \* frame of the write_to_minio call in progress
  drainIdx,   \* index of the finally loop over buffer.items()
  staging,    \* table -> content of the local staging file, or NoFile
  store,      \* objects uploaded to the bucket, in upload order
  appended,   \* history: topic -> rows appended to the buffer in this run
  flushCalls, \* history: write_to_minio calls of this run, in call order
  now,        \* wall clock: day and time of day read by datetime.now()
  bucket,     \* os.getenv("MINIO_BUCKET")
  s3_buckets, \* the buckets of the object store
  bpc,        \* position in the bucket-ensure step
  names,      \* [b['Name'] for b in s3.list_buckets()['Buckets']]
  ensureRuns, \* how many times the bucket-ensure step has been started
  s3_calls,   \* history: bucket requests sent to the store
  snapshots,  \* history: the buckets of the store at the end of each ensure run
  spc,        \* position in the connector setup script
  srv,        \* Kafka Connect: state of the connector, or "absent"
  existing_connectors, \* what list_connectors() returned
  status,     \* what the first get_connector_status() returned
  sent,       \* history: requests sent to Kafka Connect, with their responses
  results     \* history: what each admin operation returned

vars == <<pc, run, cause, log, position, committed, closed, msg_batch, buffer,
          fl, drainIdx, staging, store, appended, flushCalls, now,
          bucket, s3_buckets, bpc, names, ensureRuns, s3_calls, snapshots,
          spc, srv, existing_connectors, status, sent, results>>

consumerVars == <<pc, run, cause, log, position, committed, closed, msg_batch,
                  buffer, fl, drainIdx, staging, store, appended, flushCalls>>
bucketVars == <<bucket, s3_buckets, bpc, names, ensureRuns, s3_calls, snapshots>>
setupVars == <<spc, srv, existing_connectors, status, sent, results>>
\* what the steps of the consumer never write
otherVars == <<now, bucketVars, setupVars>>

NoFrame == [topic |-> <<>>, records |-> <<>>, caller |-> "none", date_str |-> 0]
NoFile == [present |-> FALSE, rows |-> <<>>]
File(rows) == [present |-> TRUE, rows |-> rows]

TryPcs == {"Polling", "Processing", "Serialize", "Upload", "Remove"}
FlushPcs == {"Serialize", "Upload", "Remove"}
TerminalPcs == {"Stopped", "Aborted", "Killed"}

ConsumerInit ==
  /\ pc = "Starting"
  /\ run = 1
  /\ cause = "none"
  /\ log = [t \in Topics |-> <<>>]
  /\ position = [t \in Topics |-> 0]
  /\ committed = [t \in Topics |-> 0]
  /\ closed = FALSE
  /\ msg_batch = <<>>
  /\ buffer = [t \in Topics |-> <<>>]
  /\ fl = NoFrame
  /\ drainIdx = 0
  /\ staging = [tb \in Tables |-> NoFile]
  /\ store = <<>>
  /\ appended = [t \in Topics |-> <<>>]
  /\ flushCalls = <<>>
  /\ now = [day |-> 1, tod |-> 0]

\* the bucket-ensure step has not started
EnsureIdle ==
  /\ bpc = "Idle"
  /\ names = {}
  /\ ensureRuns = 0
  /\ s3_calls = <<>>
  /\ snapshots = <<>>

\* the connector setup script has not started
SetupIdle ==
  /\ spc = "Idle"
  /\ existing_connectors = {}
  /\ status = PyNone
  /\ sent = <<>>
  /\ results = <<>>

Init ==
  /\ ConsumerInit
  /\ EnsureIdle
  /\ bucket = 1
  /\ s3_buckets = {}
  /\ SetupIdle
  /\ srv = "absent"

(* --------------------------- helpers ----------------------------------- *)
RECURSIVE SumOver(_, _)
SumOver(f, S) ==
  IF S = {} THEN 0
  ELSE LET t == CHOOSE x \in S : TRUE IN f[t] + SumOver(f, S \ {t})

TotalEvents == SumOver([t \in Topics |-> Len(log[t])], Topics)

\* what one fetch may return: per topic a number of records that are
\* available past the fetch position
FetchCounts ==
  {cnt \in [Topics -> 0..MaxPoll] :
     /\ \A t \in Topics : position[t] + cnt[t] <= Len(log[t])
     /\ SumOver(cnt, Topics) <= MaxPoll}

\* the ConsumerRecords of one partition: topic, offset and deserialized value
ChunkOf(t, n) ==
  [i \in 1..n |-> [topic |-> t, offset |-> position[t] + i,
                   value |-> log[t][position[t] + i]]]

\* msg_batch.items() flattened in iteration order
RECURSIVE BatchFrom(_, _)
BatchFrom(cnt, i) ==
  IF i > Len(TopicOrder) THEN <<>>
  ELSE ChunkOf(TopicOrder[i], cnt[TopicOrder[i]]) \o BatchFrom(cnt, i + 1)

Advance(cnt) == [t \in Topics |-> position[t] + cnt[t]]

\* history of the call in progress: the step it reached and how it ended
MarkStage(stage) ==
  flushCalls' = [flushCalls EXCEPT ![Len(flushCalls)].stage = stage]
MarkOutcome(outcome) ==
  flushCalls' = [flushCalls EXCEPT ![Len(flushCalls)].outcome = outcome]

(* ---------------------------- environment ------------------------------ *)
Malformed(e) == e \notin WellFormedShapes
MalformedCount ==
  SumOver([t \in Topics |->
             Cardinality({i \in 1..Len(log[t]) : Malformed(log[t][i])})], Topics)

\* the CDC connector writes one envelope to a topic
Produce ==
  /\ pc \in {"Starting", "Polling"}
  /\ TotalEvents < MaxEvents
  /\ \E t \in Topics, e \in WellFormedShapes :
       log' = [log EXCEPT ![t] = Append(@, e)]
  /\ UNCHANGED <<pc, run, cause, position, committed, closed, msg_batch,
                 buffer, fl, drainIdx, staging, store, appended, flushCalls>>
  /\ UNCHANGED otherVars

\* a record of another shape is written to a topic
ProduceMalformed ==
  /\ pc \in {"Starting", "Polling"}
  /\ TotalEvents < MaxEvents
  /\ MalformedCount < MaxMalformed
  /\ \E t \in Topics, e \in EventShapes \ WellFormedShapes :
       log' = [log EXCEPT ![t] = Append(@, e)]
  /\ UNCHANGED <<pc, run, cause, position, committed, closed, msg_batch,
                 buffer, fl, drainIdx, staging, store, appended, flushCalls>>
  /\ UNCHANGED otherVars

(* ---------------------------- start-up --------------------------------- *)
\* consumer.poll(timeout_ms=1000): the result is not kept
InitialPoll ==
  /\ pc = "Starting"
  /\ \E cnt \in FetchCounts : position' = Advance(cnt)
  /\ pc' = "Polling"
  /\ UNCHANGED <<run, cause, log, committed, closed, msg_batch, buffer, fl,
                 drainIdx, staging, store, appended, flushCalls>>
  /\ UNCHANGED otherVars

(* ---------------------------- poll ------------------------------------- *)
\* enable_auto_commit=True: while the script is inside poll the client
\* commits the positions reached by the earlier polls
AutoCommit ==
  /\ pc = "Polling"
  /\ committed # position
  /\ committed' = position
  /\ UNCHANGED <<pc, run, cause, log, position, closed, msg_batch, buffer, fl,
                 drainIdx, staging, store, appended, flushCalls>>
  /\ UNCHANGED otherVars

\* msg_batch = consumer.poll(timeout_ms=5000); if not msg_batch: continue
PollEmpty ==
  /\ pc = "Polling"
  /\ UNCHANGED vars

PollBatch ==
  /\ pc = "Polling"
  /\ \E cnt \in FetchCounts :
       /\ SumOver(cnt, Topics) >= 1
       /\ position' = Advance(cnt)
       /\ msg_batch' = BatchFrom(cnt, 1)
  /\ pc' = "Processing"
  /\ UNCHANGED <<run, cause, log, committed, closed, buffer, fl, drainIdx,
                 staging, store, appended, flushCalls>>
  /\ UNCHANGED otherVars

\* the except clauses, followed by the entry of finally
EnterFinally(why) ==
  /\ pc' = "Draining"
  /\ cause' = why
  /\ drainIdx' = 1
  /\ fl' = NoFrame

\* poll raises (broker unreachable, value_deserializer fails)
PollRaises ==
  /\ pc = "Polling"
  /\ EnterFinally("Exception")
  /\ UNCHANGED <<run, log, position, committed, closed, msg_batch, buffer,
                 staging, store, appended, flushCalls>>
  /\ UNCHANGED otherVars

\* KeyboardInterrupt delivered while the try block runs
Interrupt ==
  /\ pc \in TryPcs
  /\ fl.caller # "drain"
  /\ EnterFinally("KeyboardInterrupt")
  /\ IF pc \in FlushPcs THEN MarkOutcome("interrupted") ELSE UNCHANGED flushCalls
  /\ UNCHANGED <<run, log, position, committed, closed, msg_batch, buffer,
                 staging, store, appended>>
  /\ UNCHANGED otherVars

(* ------------------------ record processing ---------------------------- *)
\* payload = event.get("payload", {}); record = payload.get("after")
PayloadOf(event) == DictGet(event, "payload", PyDict({}))
ExtractRaises(event) == ~HasGet(event) \/ ~HasGet(PayloadOf(event))
RecordOf(event) == DictGet(PayloadOf(event), "after", PyNone)
OperationOf(event) == DictGet(PayloadOf(event), "op", PyNone)

\* the branch taken by lines 116-125
Classify(event) ==
  IF Truthy(RecordOf(event)) THEN "row"
  ELSE IF OperationOf(event) = PyStr("d") THEN "delete" ELSE "empty"

\* a buffered row: the post-image, and the record it was read from
Row(message) ==
  [src |-> <<message.topic, message.offset>>, row |-> RecordOf(message.value)]

\* the call write_to_minio(table_name, records)
CallFlush(topic, records, caller) ==
  /\ pc' = "Serialize"
  /\ fl' = [topic |-> topic, records |-> records, caller |-> caller,
            date_str |-> 0]
  /\ flushCalls' = Append(flushCalls,
                          [topic |-> topic, records |-> records, caller |-> caller,
                           stage |-> "serialize", outcome |-> "running"])

\* variant: the threshold is tested only after the last record of the poll
\* result
ProcessRecord_FlushAtEndOfPoll ==
  /\ pc = "Processing"
  /\ msg_batch # <<>>
  /\ LET message == Head(msg_batch)
         topic == message.topic
         event == message.value
     IN IF ExtractRaises(event)
        THEN /\ EnterFinally("Exception")
             /\ msg_batch' = Tail(msg_batch)
             /\ UNCHANGED <<buffer, appended, flushCalls>>
        ELSE LET newbuf == IF Classify(event) = "row"
                           THEN Append(buffer[topic], Row(message))
                           ELSE buffer[topic]
             IN /\ buffer' = [buffer EXCEPT ![topic] = newbuf]
                /\ appended' = IF Classify(event) = "row"
                               THEN [appended EXCEPT ![topic] = Append(@, Row(message))]
                               ELSE appended
                /\ msg_batch' = Tail(msg_batch)
                /\ IF Len(newbuf) >= batch_size /\ Tail(msg_batch) = <<>>
                   THEN /\ CallFlush(topic, newbuf, "threshold")
                        /\ UNCHANGED <<cause, drainIdx>>
                   ELSE /\ pc' = IF Tail(msg_batch) = <<>> THEN "Polling"
                                 ELSE "Processing"
                        /\ UNCHANGED <<cause, drainIdx, fl, flushCalls>>
  /\ UNCHANGED <<run, log, position, committed, closed, staging, store>>
  /\ UNCHANGED otherVars

\* one iteration of `for message in messages` up to the call of write_to_minio
ProcessRecord ==
  /\ pc = "Processing"
  /\ msg_batch # <<>>
  /\ LET message == Head(msg_batch)
         topic == message.topic
         event == message.value
     IN IF ExtractRaises(event)
        THEN /\ EnterFinally("Exception")
             /\ msg_batch' = Tail(msg_batch)
             /\ UNCHANGED <<buffer, appended, flushCalls>>
        ELSE LET newbuf == IF Classify(event) = "row"
                           THEN Append(buffer[topic], Row(message))
                           ELSE buffer[topic]
             IN /\ buffer' = [buffer EXCEPT ![topic] = newbuf]
                /\ appended' = IF Classify(event) = "row"
                               THEN [appended EXCEPT ![topic] = Append(@, Row(message))]
                               ELSE appended
                /\ msg_batch' = Tail(msg_batch)
                /\ IF Len(newbuf) >= batch_size
                   THEN /\ CallFlush(topic, newbuf, "threshold")
                        /\ UNCHANGED <<cause, drainIdx>>
                   ELSE /\ pc' = IF Tail(msg_batch) = <<>> THEN "Polling"
                                 ELSE "Processing"
                        /\ UNCHANGED <<cause, drainIdx, fl, flushCalls>>
  /\ UNCHANGED <<run, log, position, committed, closed, staging, store>>
  /\ UNCHANGED otherVars

(* --------------------------- write_to_minio ---------------------------- *)
\* write_to_minio returns: the caller clears the buffer (main loop) or goes
\* on to the next topic (finally)
\* variant: line 130 (buffer[topic] = []) is left out
ReturnFromFlush_KeepsBuffer ==
  /\ fl' = NoFrame
  /\ MarkOutcome("returned")
  /\ IF fl.caller = "threshold"
     THEN /\ pc' = IF msg_batch = <<>> THEN "Polling" ELSE "Processing"
          /\ UNCHANGED <<drainIdx, buffer>>
     ELSE /\ drainIdx' = drainIdx + 1
          /\ pc' = "Draining"
          /\ UNCHANGED buffer

ReturnFromFlush ==
  /\ fl' = NoFrame
  /\ MarkOutcome("returned")
  /\ IF fl.caller = "threshold"
     THEN /\ buffer' = [buffer EXCEPT ![fl.topic] = <<>>]
          /\ pc' = IF msg_batch = <<>> THEN "Polling" ELSE "Processing"
          /\ UNCHANGED drainIdx
     ELSE /\ drainIdx' = drainIdx + 1
          /\ pc' = "Draining"
          /\ UNCHANGED buffer

\* write_to_minio raises: except Exception and finally when called from the
\* loop; out of the script when called from finally
RaiseFromFlush ==
  /\ MarkOutcome("raised")
  /\ IF fl.caller = "threshold"
     THEN EnterFinally("Exception")
     ELSE /\ pc' = "Aborted"
          /\ fl' = NoFrame
          /\ UNCHANGED <<cause, drainIdx>>

\* datetime.now().strftime('%Y-%m-%d') and .strftime("%H%M%S%f")
DateStr(t) == t.day
TimeStr(t) == t.tod
\* f'{table_name}/date={date_str}/{table_name}_{time}.parquet'
S3Key(table_name, date_str, time_str) ==
  <<table_name, "/date=", date_str, "/", table_name, "_", time_str, ".parquet">>

\* if not records: return / date_str = ... / df.to_parquet(file_path)
SerializeOk ==
  /\ pc = "Serialize"
  /\ IF fl.records = <<>>
     THEN ReturnFromFlush /\ UNCHANGED staging
     ELSE /\ staging' = [staging EXCEPT ![TableOf(fl.topic)] = File(fl.records)]
          /\ fl' = [fl EXCEPT !.date_str = DateStr(now)]
          /\ pc' = "Upload"
          /\ MarkStage("upload")
          /\ UNCHANGED <<buffer, drainIdx>>
  /\ UNCHANGED <<run, cause, log, position, committed, closed, msg_batch,
                 store, appended>>
  /\ UNCHANGED otherVars

SerializeFails ==
  /\ pc = "Serialize"
  /\ fl.records # <<>>
  /\ RaiseFromFlush
  /\ UNCHANGED <<run, log, position, committed, closed, msg_batch, buffer,
                 staging, store, appended>>
  /\ UNCHANGED otherVars

\* s3.upload_file(file_path, bucket, s3_key)
UploadOk ==
  /\ pc = "Upload"
  /\ store' = Append(store, [table |-> TableOf(fl.topic),
                             rows |-> staging[TableOf(fl.topic)].rows,
                             run |-> run,
                             key |-> S3Key(TableOf(fl.topic), fl.date_str,
                                           TimeStr(now)),
                             at |-> now])
  /\ pc' = "Remove"
  /\ MarkStage("remove")
  /\ UNCHANGED <<run, cause, log, position, committed, closed, msg_batch,
                 buffer, fl, drainIdx, staging, appended>>
  /\ UNCHANGED otherVars

\* variant: the staging file is removed although the upload failed
UploadFails_DeletesStaging ==
  /\ pc = "Upload"
  /\ RaiseFromFlush
  /\ staging' = [staging EXCEPT ![TableOf(fl.topic)] = NoFile]
  /\ UNCHANGED <<run, log, position, committed, closed, msg_batch, buffer,
                 store, appended>>
  /\ UNCHANGED otherVars

UploadFails ==
  /\ pc = "Upload"
  /\ RaiseFromFlush
  /\ UNCHANGED <<run, log, position, committed, closed, msg_batch, buffer,
                 staging, store, appended>>
  /\ UNCHANGED otherVars

\* os.remove(file_path), then return
RemoveOk ==
  /\ pc = "Remove"
  /\ staging' = [staging EXCEPT ![TableOf(fl.topic)] = NoFile]
  /\ ReturnFromFlush
  /\ UNCHANGED <<run, cause, log, position, committed, closed, msg_batch,
                 store, appended>>
  /\ UNCHANGED otherVars

RemoveFails ==
  /\ pc = "Remove"
  /\ RaiseFromFlush
  /\ UNCHANGED <<run, log, position, committed, closed, msg_batch, buffer,
                 staging, store, appended>>
  /\ UNCHANGED otherVars

(* ------------------------------ finally -------------------------------- *)
\* for topic, records in buffer.items(): if records: write_to_minio(...)
DrainStep ==
  /\ pc = "Draining"
  /\ IF drainIdx > Len(TopicOrder)
     THEN /\ pc' = "Closing"
          /\ UNCHANGED <<fl, drainIdx, flushCalls>>
     ELSE LET topic == TopicOrder[drainIdx]
          IN IF buffer[topic] # <<>>
             THEN /\ CallFlush(topic, buffer[topic], "drain")
                  /\ UNCHANGED drainIdx
             ELSE /\ drainIdx' = drainIdx + 1
                  /\ UNCHANGED <<pc, fl, flushCalls>>
  /\ UNCHANGED <<run, cause, log, position, committed, closed, msg_batch,
                 buffer, staging, store, appended>>
  /\ UNCHANGED otherVars

\* consumer.close(): with auto-commit on, close commits the positions
Close ==
  /\ pc = "Closing"
  /\ committed' = position
  /\ closed' = TRUE
  /\ pc' = "Stopped"
  /\ UNCHANGED <<run, cause, log, position, msg_batch, buffer, fl, drainIdx,
                 staging, store, appended, flushCalls>>
  /\ UNCHANGED otherVars

(* ------------------------- crash and restart --------------------------- *)
\* the process is killed: nothing of the script runs any more
Kill ==
  /\ pc \notin TerminalPcs
  /\ pc' = "Killed"
  /\ UNCHANGED <<run, cause, log, position, committed, closed, msg_batch,
                 buffer, fl, drainIdx, staging, store, appended, flushCalls>>
  /\ UNCHANGED otherVars

\* the script is started again: fresh memory, the fetch position is the
\* committed offset; the local files and the bucket are as they were left
Restart ==
  /\ pc \in TerminalPcs
  /\ run < MaxRuns
  /\ run' = run + 1
  /\ pc' = "Starting"
  /\ cause' = "none"
  /\ position' = committed
  /\ closed' = FALSE
  /\ msg_batch' = <<>>
  /\ buffer' = [t \in Topics |-> <<>>]
  /\ fl' = NoFrame
  /\ drainIdx' = 0
  /\ appended' = [t \in Topics |-> <<>>]
  /\ flushCalls' = <<>>
  /\ UNCHANGED <<log, committed, staging, store>>
  /\ UNCHANGED otherVars

\* the steps of one run of the script
Run ==
  \/ InitialPoll
  \/ PollEmpty
  \/ PollBatch
  \/ PollRaises
  \/ Interrupt
  \/ ProcessRecord
  \/ SerializeOk
  \/ SerializeFails
  \/ UploadOk
  \/ UploadFails
  \/ RemoveOk
  \/ RemoveFails
  \/ DrainStep
  \/ Close

\* one run, fed by the connector
Next ==
  \/ Produce
  \/ Run

Spec == Init /\ [][Next]_vars

\* one run, fed with envelopes of every shape
NextEnvelope ==
  \/ Produce
  \/ ProduceMalformed
  \/ Run

SpecEnvelope == Init /\ [][NextEnvelope]_vars

\* runs with auto-commit, crashes and restarts
NextRestart ==
  \/ Produce
  \/ AutoCommit
  \/ Run
  \/ Kill
  \/ Restart

SpecRestart == Init /\ [][NextRestart]_vars

\* time passes: the clock advances by one unit, into the next day after the
\* last unit of a day
Tick ==
  /\ pc \notin TerminalPcs
  /\ IF now.tod < TicksPerDay - 1
     THEN now' = [now EXCEPT !.tod = @ + 1]
     ELSE /\ now.day < MaxDay
          /\ now' = [day |-> now.day + 1, tod |-> 0]
  /\ UNCHANGED <<pc, run, cause, log, position, committed, closed, msg_batch,
                 buffer, fl, drainIdx, staging, store, appended, flushCalls>>
  /\ UNCHANGED <<bucketVars, setupVars>>

\* one run, with time passing
NextClock ==
  \/ Produce
  \/ Run
  \/ Tick

SpecClock == Init /\ [][NextClock]_vars

(* ---------------------------- bucket ensure --------------------------- *)
\* bucket names
BucketNames == 1..MaxBuckets
\* a bucket of the store: its name, and whether list_buckets shows it to the
\* caller (buckets of another owner are not listed)
Bucket(n, listed) == [Name |-> n, listed |-> listed]
Exists(n) == \E b \in s3_buckets : b.Name = n
\* the stores in which every name is held at most once
Stores ==
  {S \in SUBSET {Bucket(n, l) : n \in BucketNames, l \in BOOLEAN} :
     \A b1, b2 \in S : b1.Name = b2.Name => b1 = b2}

InitEnsure ==
  /\ ConsumerInit
  /\ EnsureIdle
  /\ SetupIdle
  /\ srv = "absent"
  /\ bucket \in BucketNames
  /\ s3_buckets \in Stores

Request(op) == [op |-> op, Bucket |-> bucket, existed |-> Exists(bucket)]

\* the script is started
StartEnsure ==
  /\ bpc = "Idle"
  /\ ensureRuns < MaxEnsure
  /\ ensureRuns' = ensureRuns + 1
  /\ bpc' = "List"
  /\ UNCHANGED <<bucket, s3_buckets, names, s3_calls, snapshots>>
  /\ UNCHANGED <<consumerVars, now, setupVars>>

\* variant: create_bucket is called whatever the listing says
ListBuckets_AlwaysCreates ==
  /\ bpc = "List"
  /\ names' = {b.Name : b \in {x \in s3_buckets : x.listed}}
  /\ s3_calls' = Append(s3_calls, Request("list_buckets"))
  /\ bpc' = "Create"
  /\ UNCHANGED <<bucket, s3_buckets, ensureRuns, snapshots>>
  /\ UNCHANGED <<consumerVars, now, setupVars>>

\* if bucket not in [b['Name'] for b in s3.list_buckets()['Buckets']]:
ListBuckets ==
  /\ bpc = "List"
  /\ names' = {b.Name : b \in {x \in s3_buckets : x.listed}}
  /\ s3_calls' = Append(s3_calls, Request("list_buckets"))
  /\ bpc' = IF bucket \notin names' THEN "Head" ELSE "Done"
  /\ UNCHANGED <<bucket, s3_buckets, ensureRuns, snapshots>>
  /\ UNCHANGED <<consumerVars, now, setupVars>>

\* try: s3.head_bucket(Bucket=bucket) / except: (404 when there is no such
\* bucket)
HeadBucket ==
  /\ bpc = "Head"
  /\ s3_calls' = Append(s3_calls, Request("head_bucket"))
  /\ bpc' = IF Exists(bucket) THEN "Done" ELSE "Create"
  /\ UNCHANGED <<bucket, s3_buckets, names, ensureRuns, snapshots>>
  /\ UNCHANGED <<consumerVars, now, setupVars>>

\* s3.create_bucket(Bucket=bucket): the store refuses a name it already holds
\* (BucketAlreadyOwnedByYou, BucketAlreadyExists) and the exception leaves the
\* script
CreateBucket ==
  /\ bpc = "Create"
  /\ s3_calls' = Append(s3_calls, Request("create_bucket"))
  /\ IF Exists(bucket)
     THEN /\ bpc' = "Failed"
          /\ UNCHANGED s3_buckets
     ELSE /\ bpc' = "Done"
          /\ s3_buckets' = s3_buckets \cup {Bucket(bucket, TRUE)}
  /\ UNCHANGED <<bucket, names, ensureRuns, snapshots>>
  /\ UNCHANGED <<consumerVars, now, setupVars>>

\* the step is over
EndEnsure ==
  /\ bpc = "Done"
  /\ bpc' = "Idle"
  /\ snapshots' = Append(snapshots, s3_buckets)
  /\ UNCHANGED <<bucket, s3_buckets, names, ensureRuns, s3_calls>>
  /\ UNCHANGED <<consumerVars, now, setupVars>>

NextEnsure ==
  \/ StartEnsure
  \/ ListBuckets
  \/ HeadBucket
  \/ CreateBucket
  \/ EndEnsure

\* the bucket-ensure step, run again and again against one store
SpecEnsure == InitEnsure /\ [][NextEnsure]_vars

(* --------------------------- connector setup -------------------------- *)
CONNECTOR_NAME == "postgres-connector"
ConnectorStates == {"RUNNING", "PAUSED", "FAILED", "UNASSIGNED"}

\* what requests gives back: a response with a status code, or an exception
\* (connection refused, timeout)
Http(code) == [failure |-> FALSE, status_code |-> code]
TransportFailure == [failure |-> TRUE, status_code |-> 0]
StatusCodes == {200, 201, 202, 204, 404, 409, 500}
Responses == {Http(c) : c \in StatusCodes} \cup {TransportFailure}
Is(resp, codes) == ~resp.failure /\ resp.status_code \in codes

\* what Kafka Connect may answer to POST /connectors and to GET .../status:
\* 201 only for a name it does not hold, 409 only for one it holds, a status
\* body only for a connector it holds
CreateResponses ==
  {r \in Responses : /\ Is(r, {201}) => srv = "absent"
                     /\ Is(r, {409}) => srv # "absent"}
StatusResponses == {r \in Responses : Is(r, {200}) => srv # "absent"}
\* the body of GET /connectors and of GET /connectors/{name}/status
Listing == IF srv = "absent" THEN {} ELSE {CONNECTOR_NAME}
StatusBody == [kind |-> "dict", connector |-> [state |-> srv]]

Sent(op, resp) == [op |-> op, resp |-> resp]
Returned(op, value) == [op |-> op, value |-> value]

InitSetup ==
  /\ ConsumerInit
  /\ EnsureIdle
  /\ bucket = 1
  /\ s3_buckets = {}
  /\ SetupIdle
  /\ srv \in ConnectorStates \cup {"absent"}

\* python generate_and_post_connector.py
StartSetup ==
  /\ spc = "Idle"
  /\ spc' = "Health"
  /\ UNCHANGED <<srv, existing_connectors, status, sent, results>>
  /\ UNCHANGED <<consumerVars, now, bucketVars>>

\* if not check_connect_health(): exit(1)
check_connect_health ==
  /\ spc = "Health"
  /\ \E resp \in Responses :
       /\ sent' = Append(sent, Sent("health", resp))
       /\ results' = Append(results, Returned("health", Is(resp, {200})))
       /\ spc' = IF Is(resp, {200}) THEN "List" ELSE "Exited"
  /\ UNCHANGED <<srv, existing_connectors, status>>
  /\ UNCHANGED <<consumerVars, now, bucketVars>>

\* existing_connectors = list_connectors(); if CONNECTOR_NAME in ...
list_connectors ==
  /\ spc = "List"
  /\ \E resp \in Responses :
       /\ sent' = Append(sent, Sent("list", resp))
       /\ existing_connectors' = IF Is(resp, {200}) THEN Listing ELSE {}
       /\ results' = Append(results, Returned("list", existing_connectors'))
  /\ spc' = IF CONNECTOR_NAME \in existing_connectors' THEN "Status" ELSE "Create"
  /\ UNCHANGED <<srv, status>>
  /\ UNCHANGED <<consumerVars, now, bucketVars>>

\* get_connector_status(CONNECTOR_NAME): the call whose result main keeps, and
\* the calls after resume, restart and create, whose result it drops
get_connector_status ==
  /\ spc \in {"Status", "StatusAgain"}
  /\ \E resp \in StatusResponses :
       LET value == IF Is(resp, {200}) THEN StatusBody ELSE PyNone
       IN /\ sent' = Append(sent, Sent("status", resp))
          /\ results' = Append(results, Returned("status", value))
          /\ IF spc = "Status"
             THEN /\ status' = value
                  /\ spc' = IF value # PyNone /\ value.connector.state = "PAUSED"
                              THEN "Resume"
                            ELSE IF value # PyNone /\ value.connector.state = "FAILED"
                              THEN "Restart"
                            ELSE "Complete"
             ELSE /\ status' = status
                  /\ spc' = "Complete"
  /\ UNCHANGED <<srv, existing_connectors>>
  /\ UNCHANGED <<consumerVars, now, bucketVars>>

\* resume_connector(CONNECTOR_NAME)
resume_connector ==
  /\ spc = "Resume"
  /\ \E resp \in Responses :
       /\ sent' = Append(sent, Sent("resume", resp))
       /\ results' = Append(results, Returned("resume", Is(resp, {202})))
       /\ srv' = IF Is(resp, {202}) THEN "RUNNING" ELSE srv
  /\ spc' = "StatusAgain"
  /\ UNCHANGED <<existing_connectors, status>>
  /\ UNCHANGED <<consumerVars, now, bucketVars>>

\* restart_connector(CONNECTOR_NAME)
restart_connector ==
  /\ spc = "Restart"
  /\ \E resp \in Responses :
       /\ sent' = Append(sent, Sent("restart", resp))
       /\ results' = Append(results, Returned("restart", Is(resp, {202, 204})))
       /\ srv' = IF Is(resp, {202, 204}) THEN "RUNNING" ELSE srv
  /\ spc' = "StatusAgain"
  /\ UNCHANGED <<existing_connectors, status>>
  /\ UNCHANGED <<consumerVars, now, bucketVars>>

\* success = create_connector(connector_config, recreate): requests.post is
\* not inside a try, its exception leaves the function and the script
create_connector(recreate) ==
  /\ spc = "Create"
  /\ \E resp \in CreateResponses :
       /\ sent' = Append(IF recreate
                         THEN Append(sent, Sent("delete", Http(204)))
                         ELSE sent,
                         Sent("create", resp))
       /\ IF resp.failure
          THEN /\ spc' = "Crashed"
               /\ UNCHANGED results
          ELSE /\ results' = Append(results, Returned("create", Is(resp, {201})))
               /\ spc' = IF Is(resp, {201}) THEN "StatusAgain" ELSE "Complete"
       /\ srv' = IF Is(resp, {201}) THEN "RUNNING" ELSE srv
  /\ UNCHANGED <<existing_connectors, status>>
  /\ UNCHANGED <<consumerVars, now, bucketVars>>

\* the __main__ block
NextSetup ==
  \/ StartSetup
  \/ check_connect_health
  \/ list_connectors
  \/ get_connector_status
  \/ resume_connector
  \/ restart_connector
  \/ create_connector(FALSE)

SpecSetup == InitSetup /\ [][NextSetup]_vars

TypeOK ==
  /\ pc \in {"Starting", "Polling", "Processing", "Serialize", "Upload",
             "Remove", "Draining", "Closing"} \cup TerminalPcs
  /\ run \in 1..MaxRuns
  /\ \A t \in Topics : committed[t] <= position[t] /\ position[t] <= Len(log[t])

(* ======================= properties ==================================== *)
Last(q) == q[Len(q)]
Range(q) == {q[i] : i \in 1..Len(q)}

\* the write_to_minio calls made for a topic, in call order
CallsOf(t, caller) ==
  SelectSeq(flushCalls, LAMBDA c : c.topic = t /\ c.caller = caller)

\* the record at this offset of the topic carries a post-image row
CarriesRow(t, off) == Classify(log[t][off]) = "row"

\* the row read from this record is in an uploaded object
InStore(t, off) ==
  \E i \in 1..Len(store) :
    /\ store[i].table = TableOf(t)
    /\ \E r \in Range(store[i].rows) : r.src = <<t, off>>

\* the running process still holds the record or its row
Held(t, off) ==
  /\ pc \notin TerminalPcs
  /\ \/ \E m \in Range(msg_batch) : m.topic = t /\ m.offset = off
     \/ \E r \in Range(buffer[t]) : r.src = <<t, off>>

\* C1: no event is permanently lost across restarts or partial failures:
\* every record with a post-image that lies below the committed offset (and so
\* is never delivered again to any later run) is in an uploaded object or is
\* still held by the running process.
C1_NoEventLost ==
  \A t \in Topics : \A off \in 1..committed[t] :
    CarriesRow(t, off) => InStore(t, off) \/ Held(t, off)

\* the run has ended on its own: through consumer.close(), or by an exception
\* that left the finally block
RunEnded == pc \in {"Stopped", "Aborted"}

\* C2: in every run that terminates, whatever the outcome of the individual
\* flushes, every row appended to a topic's buffer has been passed to a
\* write_to_minio call (threshold flush or shutdown drain).
C2_AppendedRowsFlushed ==
  RunEnded =>
    \A t \in Topics : \A r \in Range(appended[t]) :
      \E c \in Range(flushCalls) : c.topic = t /\ r \in Range(c.records)

\* C3: no row is contained in more than one uploaded object of a run.
C3_RowInOneArtifact ==
  \A i, j \in 1..Len(store) :
    (i # j /\ store[i].run = store[j].run) =>
      Range(store[i].rows) \cap Range(store[j].rows) = {}

\* rows appended to the topic's buffer since its last threshold flush call
RECURSIVE TotalLen(_)
TotalLen(qs) == IF qs = <<>> THEN 0 ELSE Len(Head(qs).records) + TotalLen(Tail(qs))
Pending(t) == Len(appended[t]) - TotalLen(CallsOf(t, "threshold"))

\* this step appends a row to the topic's buffer
AppendsTo(t) == Len(appended'[t]) = Len(appended[t]) + 1
\* this step calls write_to_minio for the topic from the main loop
ThresholdCallFor(t) ==
  /\ Len(flushCalls') = Len(flushCalls) + 1
  /\ Last(flushCalls').topic = t
  /\ Last(flushCalls').caller = "threshold"
\* this step ends a threshold flush of the topic, by return or by exception
ThresholdFlushEnds(t) ==
  /\ pc \in FlushPcs
  /\ fl.caller = "threshold"
  /\ fl.topic = t
  /\ Last(flushCalls').outcome \in {"returned", "raised"}

\* C4: a threshold flush of T is triggered exactly when the N-th row since T's
\* last flush is appended, it is one call carrying exactly those N rows, T's
\* buffer is empty after it, and no threshold flush occurs below N rows.
C4_ThresholdFlush ==
  [][\A t \in Topics :
       /\ ThresholdCallFor(t) <=> (AppendsTo(t) /\ Pending(t) = batch_size - 1)
       /\ ThresholdCallFor(t) =>
            /\ Len(Last(flushCalls').records) = batch_size
            /\ Last(flushCalls').records =
                 SubSeq(appended'[t], Len(appended'[t]) - batch_size + 1,
                        Len(appended'[t]))
       /\ ThresholdFlushEnds(t) => buffer'[t] = <<>>]_vars

\* C5: in every run that has left Polling by interrupt or exception and has
\* ended, each topic with a non-empty buffer got exactly one drain call with
\* the full buffer, and a topic with an empty buffer got no drain call.
C5_ShutdownDrain ==
  RunEnded =>
    \A t \in Topics :
      IF buffer[t] # <<>>
      THEN /\ Len(CallsOf(t, "drain")) = 1
           /\ CallsOf(t, "drain")[1].records = buffer[t]
      ELSE CallsOf(t, "drain") = <<>>

\* the batches of a sequence of calls, in call order
RECURSIVE Batches(_)
Batches(qs) == IF qs = <<>> THEN <<>> ELSE Head(qs).records \o Batches(Tail(qs))
AllCallsOf(t) == SelectSeq(flushCalls, LAMBDA c : c.topic = t)
\* C6: whenever no flush is in progress, for every topic the batches passed to
\* the flush writer so far, in flush order, followed by the buffer, are the
\* rows appended for the topic in arrival order (no drop, no duplicate; the
\* buffer is empty once its contents have been handed over).
C6_AllBatchesThenBuffer ==
  pc \notin FlushPcs =>
    \A t \in Topics : Batches(AllCallsOf(t)) \o buffer[t] = appended[t]

(* ------------------- properties of record processing ------------------ *)
\* this step is the loop body run on the first record of msg_batch
ProcessesHead == pc = "Processing" /\ msg_batch' = Tail(msg_batch)
HeadTopic == Head(msg_batch).topic
HeadEvent == Head(msg_batch).value

\* the envelope has an operation block
HasPayload(event) == HasGet(event) /\ HasGet(PayloadOf(event))
\* its operation code is the delete marker
IsDeleteOp(event) == HasPayload(event) /\ OperationOf(event) = PyStr("d")
\* its post-image is not null
HasPostImage(event) == HasPayload(event) /\ RecordOf(event) # PyNone
\* a field is absent or null: no payload, null payload, no op, no post-image
AbsentOrNull(event) ==
  \/ ~HasGet(event)
  \/ ~HasGet(PayloadOf(event))
  \/ OperationOf(event) = PyNone
  \/ RecordOf(event) = PyNone

\* C7: a record whose operation code is the delete marker, whatever its other
\* fields, is classified as a delete and leaves every buffer unchanged.
C7_DeleteLeavesBuffers ==
  [][(ProcessesHead /\ IsDeleteOp(HeadEvent)) =>
       (Classify(HeadEvent) = "delete" /\ buffer' = buffer)]_vars

\* C8: a record with a non-null post-image (an empty mapping included) and a
\* non-delete operation code appends exactly that post-image once to the buffer
\* of its own topic and leaves the other buffers unchanged.
C8_PostImageAppended ==
  [][(ProcessesHead /\ HasPostImage(HeadEvent) /\ ~IsDeleteOp(HeadEvent)) =>
       /\ buffer'[HeadTopic] =
            Append(buffer[HeadTopic],
                   [src |-> <<HeadTopic, Head(msg_batch).offset>>,
                    row |-> RecordOf(HeadEvent)])
       /\ \A t \in Topics \ {HeadTopic} : buffer'[t] = buffer[t]]_vars

\* this step is a threshold flush ending with an exception
ThresholdFlushRaises ==
  /\ pc \in FlushPcs
  /\ fl.caller = "threshold"
  /\ Last(flushCalls').outcome = "raised"

\* C9: extraction does not raise for an envelope with absent or null fields,
\* and after such an envelope or after a failed flush the loop goes on: no
\* except clause runs, the next record or the next poll is next, and no buffer
\* other than the affected one changes.
C9_ErrorsDoNotHaltIngestion ==
  [][/\ (ProcessesHead /\ AbsentOrNull(HeadEvent)) =>
          /\ cause' = "none"
          /\ pc' \in {"Polling", "Processing"}
          /\ \A t \in Topics \ {HeadTopic} : buffer'[t] = buffer[t]
     /\ ThresholdFlushRaises =>
          /\ cause' = "none"
          /\ pc' \in {"Polling", "Processing"}
          /\ \A t \in Topics \ {fl.topic} : buffer'[t] = buffer[t]]_vars

(* ----------------------- properties of the flush ----------------------- *)
\* this step is the upload of a write_to_minio call failing
UploadFailsStep == pc = "Upload" /\ Last(flushCalls').outcome = "raised"

\* C10: when the upload of a flush fails, the call leaves the staging file in
\* place and the caller gets an exception (the main loop goes to its except
\* clause without clearing the buffer, the finally block is left); a staging
\* file is deleted only by the call that wrote it, after its upload succeeded.
C10_UploadFailureKeepsStaging ==
  [][/\ UploadFailsStep =>
          /\ staging[TableOf(fl.topic)] = File(fl.records)
          /\ staging' = staging
          /\ store' = store
          /\ buffer' = buffer
          /\ IF fl.caller = "threshold"
             THEN pc' = "Draining" /\ cause' = "Exception"
             ELSE pc' = "Aborted"
     /\ \A tb \in Tables :
          (staging[tb].present /\ ~staging'[tb].present) =>
            /\ pc = "Remove"
            /\ tb = TableOf(fl.topic)
            /\ Last(flushCalls).stage = "remove"
            /\ store # <<>>
            /\ Last(store).table = tb
            /\ Last(store).rows = fl.records]_vars

\* an upload has failed and its staging file is still there
C10_Witness ==
  /\ flushCalls # <<>>
  /\ Last(flushCalls).outcome = "raised"
  /\ Last(flushCalls).stage = "upload"
  /\ staging[TableOf(Last(flushCalls).topic)] = File(Last(flushCalls).records)
  /\ pc \in {"Draining", "Aborted"}


(* ------------------- properties of failed flushes ---------------------- *)
\* C11: there is no automatic retry: once a write_to_minio call for a batch
\* has failed, the rows of the batch are no longer in the topic's buffer and
\* are in no later write_to_minio call of the run, the shutdown drain included.
C11_NoRetryAfterFailedFlush ==
  \A i \in 1..Len(flushCalls) :
    flushCalls[i].outcome = "raised" =>
      /\ Range(flushCalls[i].records) \cap Range(buffer[flushCalls[i].topic]) = {}
      /\ \A j \in (i + 1)..Len(flushCalls) :
           flushCalls[j].topic = flushCalls[i].topic =>
             Range(flushCalls[j].records) \cap Range(flushCalls[i].records) = {}


\* this step is os.remove failing after the upload of the call succeeded
RemoveFailsStep == pc = "Remove" /\ Last(flushCalls').outcome = "raised"
\* this step uploads an object
UploadsObject == Len(store') = Len(store) + 1

\* C12: when the upload of a flush succeeds and the deletion of the staging
\* file fails, the flush still succeeds: no except clause runs, the caller goes
\* on (the main loop with the topic's buffer cleared, the drain with the next
\* topic), and the batch is not uploaded a second time.
C12_RemoveFailureIsNotAnError ==
  [][/\ RemoveFailsStep =>
          /\ cause' = cause
          /\ IF fl.caller = "threshold"
             THEN pc' \in {"Polling", "Processing"} /\ buffer'[fl.topic] = <<>>
             ELSE pc' = "Draining"
     /\ UploadsObject =>
          \A c \in Range(flushCalls) :
            (c.outcome = "raised" /\ c.stage = "remove") =>
              Range(c.records) \cap Range(Last(store').rows) = {}]_vars


(* ----------------------- properties of the shutdown -------------------- *)
\* the script is in its finally block
InFinally ==
  \/ pc \in {"Draining", "Closing"}
  \/ pc \in FlushPcs /\ fl.caller = "drain"

\* C14: a run that has entered Draining goes on to Stopped, whatever the
\* outcome of the flushes of the drain; it is Stopped only with
\* consumer.close() executed; nothing happens after Stopped.
C14_DrainingReachesStopped ==
  [][/\ InFinally => (InFinally' \/ pc' = "Stopped")
     /\ pc' = "Stopped" => closed'
     /\ pc = "Stopped" => UNCHANGED vars]_vars

\* C15: an interrupt is acted on only at the top of a poll iteration: a flush
\* in progress is never cut short by it (upload, deletion of the staging file
\* and clearing of the buffer complete first).
C15_InterruptWaitsForFlush ==
  [][(cause = "none" /\ cause' = "KeyboardInterrupt") => pc = "Polling"]_vars


(* ------------------------ bound of the buffers ------------------------- *)
\* C17: every buffer holds at most batch_size rows in every state; when a poll
\* is issued (and while a poll result is processed) every buffer holds fewer
\* than batch_size rows; no row is appended to any buffer while some buffer
\* holds batch_size rows.
C17_BufferBound ==
  /\ [](\A t \in Topics :
          /\ Len(buffer[t]) <= batch_size
          /\ pc \in {"Starting", "Polling", "Processing"} => Len(buffer[t]) < batch_size)
  /\ [][(\E t \in Topics : AppendsTo(t)) =>
          \A u \in Topics : Len(buffer[u]) < batch_size]_vars

\* a buffer reached batch_size, was flushed and cleared, and the next poll is
\* about to be issued
C17_Witness ==
  /\ pc = "Polling"
  /\ flushCalls # <<>>
  /\ Last(flushCalls).caller = "threshold"
  /\ Last(flushCalls).outcome = "returned"
  /\ Len(Last(flushCalls).records) = batch_size
  /\ buffer[Last(flushCalls).topic] = <<>>


(* ------------------ order of buffering and flushing -------------------- *)
\* C18 as stated: flush calls for full buffers are made only after the last
\* record of the poll result has been processed.
C18_FlushAfterLastRecord ==
  [][(\E t \in Topics : ThresholdCallFor(t)) => msg_batch' = <<>>]_vars

\* C18 as the loop does it: the flush call is made by the iteration that
\* appends the row filling the buffer, with exactly the batch_size rows of that
\* buffer, whether or not records of the poll result are still to be
\* processed; while the call runs no record is processed and no poll is issued.
C18_FlushFollowsFillingRecord ==
  [][/\ \A t \in Topics :
          ThresholdCallFor(t) =>
            /\ pc = "Processing"
            /\ HeadTopic = t
            /\ AppendsTo(t)
            /\ Len(buffer'[t]) = batch_size
            /\ Last(flushCalls').records = buffer'[t]
            /\ msg_batch' = Tail(msg_batch)
     /\ (pc \in FlushPcs /\ fl.caller = "threshold") =>
          /\ msg_batch' = msg_batch
          /\ position' = position
          /\ appended' = appended]_vars

\* a flush called from the loop runs while records of the poll result are
\* still to be processed
C18_Witness ==
  /\ pc \in FlushPcs
  /\ fl.caller = "threshold"
  /\ msg_batch # <<>>


(* --------------------------- storage keys ------------------------------ *)
\* C13: any two uploads of the same table made at different instants have
\* different storage keys, so no uploaded object is overwritten.
C13_DistinctKeys ==
  \A i, j \in 1..Len(store) :
    (i # j /\ store[i].table = store[j].table /\ store[i].at # store[j].at)
      => store[i].key # store[j].key


OpsSent == {sent[i].op : i \in 1..Len(sent)}

\* C19: after a failed health check no further request is sent; create is
\* sent only when the name is absent from the listing, resume only when the
\* reported state is PAUSED, restart only when it is FAILED; delete and pause
\* are never sent; every admin operation returns a value, whatever the status
\* code or the transport failure: the script never ends in an exception.
C19_SetupIsSafe ==
  /\ (sent # <<>> /\ ~Is(sent[1].resp, {200})) => Len(sent) = 1
  /\ "create" \in OpsSent => CONNECTOR_NAME \notin existing_connectors
  /\ "resume" \in OpsSent => (status # PyNone /\ status.connector.state = "PAUSED")
  /\ "restart" \in OpsSent => (status # PyNone /\ status.connector.state = "FAILED")
  /\ OpsSent \cap {"delete", "pause"} = {}
  /\ spc # "Crashed"

====
